---------------------------- MODULE Spec2Model ----------------------------
(***************************************************************************)
(* The IPL analytics dashboard script (cricket_analytics_app.py) as a      *)
(* state machine.  The script runs top to bottom once per load: load_data, *)
(* the veteran helper, then one block per query (FR1 .. FR11), each of     *)
(* which assigns its own variables and renders its result.                 *)
(*                                                                         *)
(* A DataFrame is a sequence of records (one record per row, one field per *)
(* column); a Series is a sequence of [index, value] records.  A missing   *)
(* string is NA, a missing number is NaN.  A percentage n/d*100 is kept as *)
(* the exact ratio [num |-> 100*n, den |-> d].  Where pandas leaves the     *)
(* order of equal sort keys to the sorting algorithm, the model picks one  *)
(* order with CHOOSE.                                                      *)
(*                                                                         *)
(* Left out: the columns that are only displayed or never read by a query  *)
(* whose result is kept (season, non_striker, player_match and its         *)
(* derivatives at lines 248-254), and FR8 (average innings totals).        *)
(***************************************************************************)
EXTENDS Integers, Sequences, FiniteSets, TLC

VARIABLES
    pc,                 \* the block of the script that runs next
    matches_csv,        \* the file matches.csv: [present, rows]
    deliveries_csv,     \* the file deliveries.csv: [present, rows]
    loaded,             \* "matches is not None" (line 31)
    st_error,           \* st.error was called (line 26)
    rendered,           \* the outputs handed to st.pyplot / st.dataframe
    matches, deliveries, merged_data,
    early_players_bat, early_players_bowl,
    post_2020_data, fr1_data, top_scorers,
    top_sr, top_fielders,
    wickets, top_bowlers,
    venue_stats, top_toss_venues,
    team_perf, top_chases,
    fr1_vet_data, top_vet_scorers,
    vet_wickets, top_vet_bowlers,
    vet_perf, top_coaches_win, vet_perf_full, chase_stats, experience

tables == <<matches, deliveries, merged_data>>
tab1 == <<post_2020_data, fr1_data, top_scorers, top_sr, top_fielders,
          wickets, top_bowlers>>
tab2 == <<venue_stats, top_toss_venues>>
tab3 == <<team_perf, top_chases>>
tab4 == <<fr1_vet_data, top_vet_scorers, vet_wickets, top_vet_bowlers>>
tab5 == <<vet_perf, top_coaches_win, vet_perf_full, chase_stats, experience>>
veterans == <<early_players_bat, early_players_bowl>>
files == <<matches_csv, deliveries_csv>>
vars == <<pc, files, loaded, st_error, rendered, tables, veterans,
          tab1, tab2, tab3, tab4, tab5>>

-----------------------------------------------------------------------------
(* Bounds of the enumerated inputs. *)

\* rows of the fixed part of matches.csv
NumBaseMatches == 50
\* rows of matches.csv that vary
NumFreeMatches == 1
\* rows of deliveries.csv that vary
NumFreeDeliveries == 1
\* batters of the fixed part of deliveries.csv who played only after 2020
NumFillers == 10

(* Program constants. *)
EarlyFrom == 2008
EarlyTo == 2012
RecentAfter == 2020
MinBalls == 50
MinVenueMatches == 10
MinTossMatches == 10
MinVetMatches == 50
TopN == 10

NA == "NA"
NaN == 0 - 1
NotCredited == {"run out", "retired hurt", "obstructing the field"}
Undecided == {"tie", "no result"}

-----------------------------------------------------------------------------
(* pandas helpers *)

Range(s) == {s[k] : k \in 1..Len(s)}

Min2(a, b) == IF a < b THEN a ELSE b

\* head with the bound off by one
HeadN_one_more(s, n) == SubSeq(s, 1, Min2(n + 1, Len(s)))

\* DataFrame.head(n) / Series.head(n)
HeadN(s, n) == SubSeq(s, 1, Min2(n, Len(s)))

\* a percentage n / d * 100 as an exact ratio
Pct(n, d) == IF n = NaN THEN [num |-> NaN, den |-> d]
             ELSE [num |-> 100 * n, den |-> d]
PctLess(a, b) == a.num * b.den < b.num * a.den

\* row a is ahead of row b in descending order of column f, a percentage
\* (ratio) or a number
Ahead(a, b, f, ratio) == IF ratio THEN PctLess(b[f], a[f]) ELSE a[f] > b[f]

\* sort_values(f, ascending=False): the rows of s in descending order of f
SortRows(s, f, ratio) ==
    LET RECURSIVE go(_)
        go(I) == IF I = {} THEN <<>>
                 ELSE LET m == CHOOSE i \in I :
                                   \A j \in I : ~Ahead(s[j], s[i], f, ratio)
                      IN  <<s[m]>> \o go(I \ {m})
    IN  go(1..Len(s))

\* the rows of a set in some order
SetToSeq(S) ==
    LET RECURSIVE go(_)
        go(R) == IF R = {} THEN <<>>
                 ELSE LET m == CHOOSE r \in R : TRUE
                      IN  <<m>> \o go(R \ {m})
    IN  go(S)

\* the groups of a groupby, sorted
SortBy(S, f, ratio) == SortRows(SetToSeq(S), f, ratio)

\* sum of column f over the rows of s
RECURSIVE SumCol(_, _)
SumCol(s, f) == IF s = <<>> THEN 0 ELSE Head(s)[f] + SumCol(Tail(s), f)

\* number of rows of s whose column f is TRUE (sum of a boolean column)
CountTrue(s, f) == Len(SelectSeq(s, LAMBDA r : r[f]))

RECURSIVE Flatten(_)
Flatten(ss) == IF ss = <<>> THEN <<>> ELSE Head(ss) \o Flatten(Tail(ss))

\* left.merge(right, left_on=l, right_on=r, how='inner')
MergeInner(left, right, l, r) ==
    Flatten([k \in 1..Len(left) |->
        LET hits == SelectSeq(right, LAMBDA m : m[r] = left[k][l])
        IN  [j \in 1..Len(hits) |-> left[k] @@ hits[j]]])

\* left.merge(right, left_on=l, right_on=r, how='left'); nulls is the row of
\* missing values an unmatched left row gets for right's columns
MergeLeft(left, right, l, r, nulls) ==
    Flatten([k \in 1..Len(left) |->
        LET hits == SelectSeq(right, LAMBDA m : m[r] = left[k][l])
        IN  IF hits = <<>> THEN <<left[k] @@ nulls>>
            ELSE [j \in 1..Len(hits) |-> left[k] @@ hits[j]]])

\* Series.between(lo, hi); a NaN is in no interval
Between(y, lo, hi) == y # NaN /\ lo <= y /\ y <= hi

-----------------------------------------------------------------------------
(* The input files. *)

\* pd.to_datetime(errors='coerce') and .dt.year: a parseable date gives its
\* year, an unparseable one NaT, whose year is NaN
YearOf(date) == IF date.parseable THEN date.year ELSE NaN

Date(y) == [parseable |-> TRUE, year |-> y]
BadDate == [parseable |-> FALSE, year |-> 0]

BaseMatch(i) ==
    [id |-> i,
     date |-> IF i <= 2 THEN Date(2010)
              ELSE IF i = 3 THEN Date(2015)
              ELSE IF i = 4 THEN BadDate ELSE Date(2021),
     venue |-> IF i < MinVenueMatches THEN "V1" ELSE "V2",
     team1 |-> "A", team2 |-> "B",
     toss_decision |-> IF i % 2 = 0 THEN "bat" ELSE "field",
     toss_winner |-> IF i % 3 = 0 THEN "B" ELSE "A",
     result |-> IF i < MinVenueMatches THEN "normal"
                ELSE IF i % 7 = 0 THEN "tie"
                ELSE IF i % 7 = 6 THEN "no result" ELSE "normal",
     winner |-> IF i >= MinVenueMatches /\ i % 7 \in {0, 6} THEN NA
                ELSE IF i % 7 \in {4, 5} THEN "B" ELSE "A"]

BaseMatches == [i \in 1..NumBaseMatches |-> BaseMatch(i)]

\* A varying row of matches.csv, A against C after 2020, decoded from k.
FreeMatchKinds == 2 * 2 * 2 * 5
FreeMatch(i, k) ==
    LET o == (k \div 8) % 5 IN
    [id |-> i,
     date |-> Date(2021),
     venue |-> IF k % 2 = 0 THEN "V1" ELSE "V3",
     team1 |-> "A", team2 |-> "C",
     toss_decision |-> IF (k \div 2) % 2 = 0 THEN "bat" ELSE "field",
     toss_winner |-> IF (k \div 4) % 2 = 0 THEN "A" ELSE "C",
     result |-> IF o \in {0, 1} THEN "normal"
                ELSE IF o \in {2, 3} THEN "tie" ELSE "no result",
     winner |-> IF o \in {0, 3} THEN "A" ELSE IF o = 1 THEN "C" ELSE NA]

\* Renaming the ids of the varying rows maps a table to one with the same
\* results, so one order of the varying rows is enumerated.
Ascending(f, n) == \A a, b \in 1..n : a <= b => f[a] <= f[b]

MatchTables(n) ==
    {BaseMatches \o [j \in 1..n |-> FreeMatch(NumBaseMatches + j, f[j])] :
        f \in {g \in [1..n -> 0..(FreeMatchKinds - 1)] : Ascending(g, n)}}

Delivery(m, inn, team, bat, bowl, runs, kind, fld) ==
    [match_id |-> m, inning |-> inn, batting_team |-> team,
     batter |-> bat, bowler |-> bowl,
     batsman_runs |-> runs, total_runs |-> runs, ball |-> 1,
     is_wicket |-> IF kind = NA THEN 0 ELSE 1,
     dismissal_kind |-> kind, fielder |-> fld]

\* Player 1 bats for A in every base match, and to MinBalls balls after 2020;
\* player 2 bowls to player 1, player 3 fields.
BaseDelivery(i) ==
    LET m == IF i <= NumBaseMatches THEN i ELSE NumBaseMatches
        kind == IF i % 4 = 0 THEN "caught"
                ELSE IF i % 4 = 1 THEN "run out"
                ELSE IF i % 8 = 2 THEN "bowled" ELSE NA
    IN  Delivery(m, IF m % 4 = 3 THEN 2 ELSE 1, "A", 1, 2, i % 5, kind,
                 IF kind \in {"caught", "run out"} THEN 3 ELSE NaN)

\* Filler f bats once for B in the last base match, bowled by the next filler.
FillerDelivery(f) ==
    Delivery(NumBaseMatches, 2, "B",
             100 + f, 100 + (f % NumFillers) + 1, 1,
             IF f % 2 = 0 THEN "bowled" ELSE "caught",
             IF f % 2 = 0 THEN NaN ELSE 100 + (f % NumFillers) + 1)

BaseDeliveries ==
    [i \in 1..(NumBaseMatches + 4) |-> BaseDelivery(i)]
    \o [f \in 1..NumFillers |-> FillerDelivery(f)]

\* A varying row of deliveries.csv, decoded from k: in an early match (id 1)
\* or a recent one (the last base match), between the new players 12 and 13
\* or with player 1 or 2 of the fixed part batting.
FreeDeliveryKinds == 2 * 4 * 2 * 4
FreeDelivery(k) ==
    LET p == (k \div 2) % 4
        o == (k \div 16) % 4
        bat == IF p = 0 THEN 12 ELSE IF p = 1 THEN 13 ELSE IF p = 2 THEN 1 ELSE 2
        bowl == IF bat = 12 THEN 13 ELSE 12
        kind == IF o = 0 THEN NA ELSE IF o = 1 THEN "bowled"
                ELSE IF o = 2 THEN "run out" ELSE "caught"
    IN  Delivery(IF k % 2 = 0 THEN 1 ELSE NumBaseMatches, 1,
                 IF (k \div 8) % 2 = 0 THEN "A" ELSE "B",
                 bat, bowl, IF o = 0 THEN 4 ELSE 0, kind,
                 IF o >= 2 THEN bowl ELSE NaN)

DeliveryTables(n) ==
    {BaseDeliveries \o [j \in 1..n |-> FreeDelivery(f[j])] :
        f \in {g \in [1..n -> 0..(FreeDeliveryKinds - 1)] : Ascending(g, n)}}

File(rows) == [present |-> TRUE, rows |-> rows]
Missing == [present |-> FALSE, rows |-> <<>>]


-----------------------------------------------------------------------------
(* Data loading (lines 13-29). *)

NullMatch ==
    [id |-> NaN, date |-> BadDate, year |-> NaN, venue |-> NA, team1 |-> NA,
     team2 |-> NA, toss_decision |-> NA, toss_winner |-> NA, result |-> NA,
     winner |-> NA]

\* lines 20-21: the date parsed, the year derived from it
Preprocess(rows) ==
    [k \in 1..Len(rows) |-> rows[k] @@ [year |-> YearOf(rows[k].date)]]

\* load_data with only the read of matches.csv guarded: an absent
\* deliveries.csv gives an empty table
load_data_unguarded(mcsv, dcsv) ==
    IF ~mcsv.present
    THEN [error |-> TRUE, ok |-> FALSE,
          matches |-> <<>>, deliveries |-> <<>>, merged_data |-> <<>>]
    ELSE [error |-> FALSE, ok |-> TRUE,
          matches |-> Preprocess(mcsv.rows), deliveries |-> dcsv.rows,
          merged_data |-> MergeLeft(dcsv.rows, Preprocess(mcsv.rows),
                                    "match_id", "id", NullMatch)]

\* A read of an absent file raises FileNotFoundError, which the handler turns
\* into st.error and three Nones.
load_data(mcsv, dcsv) ==
    IF ~mcsv.present \/ ~dcsv.present
    THEN [error |-> TRUE, ok |-> FALSE,
          matches |-> <<>>, deliveries |-> <<>>, merged_data |-> <<>>]
    ELSE LET m == Preprocess(mcsv.rows)
         IN  [error |-> FALSE, ok |-> TRUE,
              matches |-> m, deliveries |-> dcsv.rows,
              merged_data |-> MergeLeft(dcsv.rows, m, "match_id", "id",
                                        NullMatch)]

-----------------------------------------------------------------------------
(* Series and group helpers. *)

\* the distinct values of column f
Unique(s, f) == {r[f] : r \in Range(s)}

\* the count of each non-null value of column f, as a set of [index, value]
Counts(s, f, null) ==
    {[index |-> v, value |-> Len(SelectSeq(s, LAMBDA r : r[f] = v))] :
        v \in Unique(s, f) \ {null}}

\* Series.value_counts(): the counts, descending
ValueCounts(s, f, null) == SortBy(Counts(s, f, null), "value", FALSE)

\* groupby(key)[val].sum() as a set of [index, value]
GroupSum(s, key, val) ==
    {[index |-> v, value |-> SumCol(SelectSeq(s, LAMBDA r : r[key] = v), val)] :
        v \in Unique(s, key)}

-----------------------------------------------------------------------------
(* Veterans (lines 33-35). *)

early_seasons(m) ==
    {r.id : r \in {q \in Range(m) : Between(q.year, EarlyFrom, EarlyTo)}}

EarlyPlayers(d, m, role) ==
    {r[role] : r \in {q \in Range(d) : q.match_id \in early_seasons(m)}}

-----------------------------------------------------------------------------
(* Tab 1: player stats (lines 46-94). *)

post_2020_matches(m) == {r.id : r \in {q \in Range(m) : q.year > RecentAfter}}

Post2020Data(d, m) ==
    SelectSeq(d, LAMBDA r : r.match_id \in post_2020_matches(m))

\* line 52
Fr1Data(data, early_bat) == SelectSeq(data, LAMBDA r : r.batter \notin early_bat)

\* lines 53 and 216
RunsByBatter(data) == GroupSum(data, "batter", "batsman_runs")

TopScorers(data) == HeadN(SortBy(RunsByBatter(data), "value", FALSE), TopN)

\* lines 63-66
StrikeRates(data) ==
    LET stats ==
            {[batter |-> v,
              batsman_runs |->
                  SumCol(SelectSeq(data, LAMBDA r : r.batter = v), "batsman_runs"),
              ball |-> Len(SelectSeq(data, LAMBDA r : r.batter = v))] :
                v \in Unique(data, "batter")}
        kept == {g \in stats : g.ball >= MinBalls}
        rated == {g @@ [strike_rate |-> Pct(g.batsman_runs, g.ball)] : g \in kept}
    IN  rated

TopSr(data) == HeadN(SortBy(StrikeRates(data), "strike_rate", TRUE), TopN)

\* lines 75-76
Catches(d) == SelectSeq(d, LAMBDA r : r.dismissal_kind = "caught")

TopFielders(d) == HeadN(ValueCounts(Catches(d), "fielder", NaN), TopN)

\* line 86
Fr4Data(data, early_bowl) == SelectSeq(data, LAMBDA r : r.bowler \notin early_bowl)

\* lines 87-88 and 227-228
CreditedWickets(data) ==
    SelectSeq(SelectSeq(data, LAMBDA r : r.is_wicket = 1),
              LAMBDA r : r.dismissal_kind \notin NotCredited)

\* lines 89 and 229
TopBowlers(w) == HeadN(ValueCounts(w, "bowler", NaN), TopN)

-----------------------------------------------------------------------------
(* Tab 2: stadium stats (lines 101-140). *)

\* bat_first_won without its tie / no-result line
bat_first_won_no_tie_check(row) ==
    IF row.toss_decision = "bat" THEN row.toss_winner = row.winner
    ELSE row.toss_winner # row.winner

bat_first_won(row) ==
    IF row.result \in Undecided THEN FALSE
    ELSE IF row.toss_decision = "bat" THEN row.toss_winner = row.winner
    ELSE row.toss_winner # row.winner

\* field_first_won as a copy of bat_first_won with the decision left at 'bat'
field_first_won_copied(row) ==
    IF row.result \in Undecided THEN FALSE
    ELSE IF row.toss_decision = "bat" THEN row.toss_winner = row.winner
    ELSE row.toss_winner # row.winner

field_first_won(row) ==
    IF row.result \in Undecided THEN FALSE
    ELSE IF row.toss_decision = "field" THEN row.toss_winner = row.winner
    ELSE row.toss_winner # row.winner

\* lines 111-112: two columns added to the shared matches table
Classified(m) ==
    [k \in 1..Len(m) |->
        m[k] @@ [bat_first_win |-> bat_first_won(m[k]),
                 field_first_win |-> field_first_won(m[k])]]

\* lines 117-124
VenueStats(m) ==
    LET at(v) == SelectSeq(m, LAMBDA r : r.venue = v)
        groups == {[venue |-> v,
                    total_matches |-> Len(at(v)),
                    bat_first_wins |-> CountTrue(at(v), "bat_first_win"),
                    field_first_wins |-> CountTrue(at(v), "field_first_win")] :
                      v \in Unique(m, "venue") \ {NA}}
        kept == {g \in groups : g.total_matches >= MinVenueMatches}
    IN  SetToSeq({g @@ [bat_pct |-> Pct(g.bat_first_wins, g.total_matches),
                        field_pct |-> Pct(g.field_first_wins, g.total_matches)] :
                     g \in kept})

\* line 133: a third column added to the shared matches table
TossClassified(m) ==
    [k \in 1..Len(m) |->
        m[k] @@ [toss_win_match_win |-> (m[k].toss_winner = m[k].winner)]]

\* lines 134-139
TossImpact(m) ==
    LET at(v) == SelectSeq(m, LAMBDA r : r.venue = v)
        toss_impact == {[venue |-> v,
                         matches |-> Len(at(v)),
                         wins |-> CountTrue(at(v), "toss_win_match_win")] :
                           v \in Unique(m, "venue") \ {NA}}
        kept == {g \in toss_impact : g.matches >= MinTossMatches}
    IN  {g @@ [win_prob |-> Pct(g.wins, g.matches)] : g \in kept}

\* line 140
TopTossVenues(m) == HeadN(SortBy(TossImpact(m), "win_prob", TRUE), TopN)


-----------------------------------------------------------------------------
(* Tab 3: team stats (lines 173-200). *)

\* the merge without fillna(0)
Fillna_omitted(row) == row

\* DataFrame.fillna(0), which here meets missing values in column wins only
Fillna(row) == [row EXCEPT !.wins = IF @ = NaN THEN 0 ELSE @]

\* lines 173-182
TeamPerf(m) ==
    LET recent_matches == SelectSeq(m, LAMBDA r : r.year > RecentAfter)
        both == [k \in 1..Len(recent_matches) |->
                    [team |-> recent_matches[k].team1]]
                \o [k \in 1..Len(recent_matches) |->
                    [team |-> recent_matches[k].team2]]
        counted == ValueCounts(both, "team", NA)
        team_stats == [k \in 1..Len(counted) |->
                          [team |-> counted[k].index,
                           matches_played |-> counted[k].value]]
        won == ValueCounts(recent_matches, "winner", NA)
        wins == [k \in 1..Len(won) |->
                    [team |-> won[k].index, wins |-> won[k].value]]
        merged == MergeLeft(team_stats, wins, "team", "team", [wins |-> NaN])
        filled == [k \in 1..Len(merged) |-> Fillna(merged[k])]
    IN  SortRows([k \in 1..Len(filled) |->
                     filled[k] @@ [win_pct |-> Pct(filled[k].wins,
                                                   filled[k].matches_played)]], "win_pct", TRUE)

\* lines 193-199
Chases(m, merged) ==
    LET chase_wins == SelectSeq(m, field_first_won)
        inn1 == SelectSeq(merged, LAMBDA r : r.inning = 1)
        inn1_runs == SetToSeq({[match_id |-> v,
                                total_runs |->
                                    SumCol(SelectSeq(inn1, LAMBDA r : r.match_id = v),
                                           "total_runs")] :
                                  v \in Unique(inn1, "match_id")})
    IN  MergeInner(chase_wins, inn1_runs, "id", "match_id")

\* line 200
TopChases(m, merged) == HeadN(SortRows(Chases(m, merged), "total_runs", FALSE), TopN)

-----------------------------------------------------------------------------
(* Tab 4: veteran stats (lines 215-229). *)

\* the veteran filter of the batters taken from both early sets
Fr1VetData_any_role(data, early_bat) ==
    SelectSeq(data, LAMBDA r : r.batter \in early_bat \cup early_players_bowl)

\* line 215
Fr1VetData(data, early_bat) == SelectSeq(data, LAMBDA r : r.batter \in early_bat)

\* line 226
Fr4VetData(data, early_bowl) == SelectSeq(data, LAMBDA r : r.bowler \in early_bowl)

-----------------------------------------------------------------------------
(* Tab 5: coach stats (lines 242-342). *)

Project(s, cols) == [k \in 1..Len(s) |-> [c \in cols |-> s[k][c]]]

\* line 263: the player-team map, from batting appearances only
batters(d) ==
    SetToSeq({[match_id |-> r.match_id, player |-> r.batter,
               team |-> r.batting_team] : r \in Range(d)})

\* lines 242, 277-285
VetPerf(d, m, early_bat, early_bowl) ==
    LET all_veterans == early_bat \cup early_bowl
        player_teams == batters(d)
        vet_teams == SelectSeq(player_teams, LAMBDA r : r.player \in all_veterans)
        joined == MergeInner(vet_teams,
                             Project(m, {"id", "winner", "bat_first_win",
                                         "field_first_win"}),
                             "match_id", "id")
    IN  [k \in 1..Len(joined) |->
            joined[k] @@ [won |-> (joined[k].team = joined[k].winner)]]

\* lines 289-294
VetWinStats(perf) ==
    LET of(p) == SelectSeq(perf, LAMBDA r : r.player = p)
        vet_win_stats == {[player |-> p,
                           matches |-> Len(of(p)),
                           wins |-> CountTrue(of(p), "won")] :
                             p \in Unique(perf, "player")}
        kept == {g \in vet_win_stats : g.matches >= MinVetMatches}
    IN  {g @@ [win_pct |-> Pct(g.wins, g.matches)] : g \in kept}

\* line 295
TopCoachesWin(perf) == HeadN(SortBy(VetWinStats(perf), "win_pct", TRUE), TopN)

\* lines 317-320: the placeholder, defined and never applied
is_chase_win(row) == IF ~row.won THEN FALSE ELSE FALSE

\* check_chase left as the placeholder
check_chase_placeholder(row) == is_chase_win(row)

\* lines 325-329
check_chase(row) ==
    IF ~row.won THEN FALSE
    ELSE IF row.toss_decision = "field" /\ row.toss_winner = row.team THEN TRUE
    ELSE IF row.toss_decision = "bat" /\ row.toss_winner # row.team THEN TRUE
    ELSE FALSE

\* lines 323, 331
VetPerfFull(perf, m) ==
    LET full == MergeInner(perf, Project(m, {"id", "toss_winner", "toss_decision"}),
                           "id", "id")
    IN  [k \in 1..Len(full) |-> full[k] @@ [chase_win |-> check_chase(full[k])]]

\* line 333: groupby('player')['chase_win'].sum()
ChaseWinsByPlayer(full) ==
    {[index |-> p,
      value |-> CountTrue(SelectSeq(full, LAMBDA r : r.player = p), "chase_win")] :
        p \in Unique(full, "player")}

ChaseStats(full) == HeadN(SortBy(ChaseWinsByPlayer(full), "value", FALSE), TopN)

\* line 342: groupby('player')['id'].count()
RowsByPlayer(perf) == Counts(perf, "player", NaN)

Experience(perf) == HeadN(SortBy(RowsByPlayer(perf), "value", FALSE), TopN)


-----------------------------------------------------------------------------
(* The script. *)

InitFiles(M, D) ==
    /\ matches_csv \in {File(t) : t \in M} \cup {Missing}
    /\ deliveries_csv \in {File(t) : t \in D} \cup {Missing}
    /\ pc = "load"
    /\ loaded = FALSE /\ st_error = FALSE /\ rendered = {}
    /\ matches = <<>> /\ deliveries = <<>> /\ merged_data = <<>>
    /\ early_players_bat = {} /\ early_players_bowl = {}
    /\ post_2020_data = <<>> /\ fr1_data = <<>> /\ top_scorers = <<>>
    /\ top_sr = <<>> /\ top_fielders = <<>>
    /\ wickets = <<>> /\ top_bowlers = <<>>
    /\ venue_stats = <<>> /\ top_toss_venues = <<>>
    /\ team_perf = <<>> /\ top_chases = <<>>
    /\ fr1_vet_data = <<>> /\ top_vet_scorers = <<>>
    /\ vet_wickets = <<>> /\ top_vet_bowlers = <<>>
    /\ vet_perf = <<>> /\ top_coaches_win = <<>> /\ vet_perf_full = <<>>
    /\ chase_stats = <<>> /\ experience = <<>>

\* matches.csv varies, deliveries.csv is the fixed table
Init == InitFiles(MatchTables(NumFreeMatches), {BaseDeliveries})

\* deliveries.csv varies, matches.csv is the fixed table
InitDeliveries == InitFiles({BaseMatches}, DeliveryTables(NumFreeDeliveries))

\* lines 29-31: the load, and the guard of everything after it
Load ==
    /\ pc = "load"
    /\ LET got == load_data(matches_csv, deliveries_csv) IN
        /\ matches' = got.matches
        /\ deliveries' = got.deliveries
        /\ merged_data' = got.merged_data
        /\ st_error' = got.error
        /\ loaded' = got.ok
        /\ pc' = IF got.ok THEN "veterans" ELSE "done"
    /\ UNCHANGED <<files, rendered, veterans, tab1, tab2, tab3, tab4, tab5>>

\* lines 33-35
Veterans ==
    /\ pc = "veterans"
    /\ early_players_bat' = EarlyPlayers(deliveries, matches, "batter")
    /\ early_players_bowl' = EarlyPlayers(deliveries, matches, "bowler")
    /\ pc' = "fr1"
    /\ UNCHANGED <<files, loaded, st_error, rendered, tables,
                   tab1, tab2, tab3, tab4, tab5>>

\* lines 48-58
FR1 ==
    /\ pc = "fr1"
    /\ post_2020_data' = Post2020Data(deliveries, matches)
    /\ fr1_data' = Fr1Data(post_2020_data', early_players_bat)
    /\ top_scorers' = TopScorers(fr1_data')
    /\ rendered' = rendered \cup {"top_scorers"}
    /\ pc' = "fr2"
    /\ UNCHANGED <<files, loaded, st_error, tables, veterans,
                   top_sr, top_fielders, wickets, top_bowlers,
                   tab2, tab3, tab4, tab5>>

\* lines 62-68
FR2 ==
    /\ pc = "fr2"
    /\ top_sr' = TopSr(post_2020_data)
    /\ rendered' = rendered \cup {"top_sr"}
    /\ pc' = "fr3"
    /\ UNCHANGED <<files, loaded, st_error, tables, veterans,
                   post_2020_data, fr1_data, top_scorers, top_fielders,
                   wickets, top_bowlers, tab2, tab3, tab4, tab5>>

\* lines 74-81
FR3 ==
    /\ pc = "fr3"
    /\ top_fielders' = TopFielders(deliveries)
    /\ rendered' = rendered \cup {"top_fielders"}
    /\ pc' = "fr4"
    /\ UNCHANGED <<files, loaded, st_error, tables, veterans,
                   post_2020_data, fr1_data, top_scorers, top_sr,
                   wickets, top_bowlers, tab2, tab3, tab4, tab5>>

\* lines 85-94
FR4 ==
    /\ pc = "fr4"
    /\ wickets' = CreditedWickets(Fr4Data(post_2020_data, early_players_bowl))
    /\ top_bowlers' = TopBowlers(wickets')
    /\ rendered' = rendered \cup {"top_bowlers"}
    /\ pc' = "fr5"
    /\ UNCHANGED <<files, loaded, st_error, tables, veterans,
                   post_2020_data, fr1_data, top_scorers, top_sr, top_fielders,
                   tab2, tab3, tab4, tab5>>

\* lines 101-126
FR5 ==
    /\ pc = "fr5"
    /\ matches' = Classified(matches)
    /\ venue_stats' = VenueStats(matches')
    /\ rendered' = rendered \cup {"venue_stats"}
    /\ pc' = "fr6"
    /\ UNCHANGED <<files, loaded, st_error, deliveries, merged_data, veterans,
                   tab1, top_toss_venues, tab3, tab4, tab5>>

\* lines 132-145
FR6 ==
    /\ pc = "fr6"
    /\ matches' = TossClassified(matches)
    /\ top_toss_venues' = TopTossVenues(matches')
    /\ rendered' = rendered \cup {"top_toss_venues"}
    /\ pc' = "fr9"
    /\ UNCHANGED <<files, loaded, st_error, deliveries, merged_data, veterans,
                   tab1, venue_stats, tab3, tab4, tab5>>

\* lines 172-187
FR9 ==
    /\ pc = "fr9"
    /\ team_perf' = TeamPerf(matches)
    /\ rendered' = rendered \cup {"team_perf"}
    /\ pc' = "fr10"
    /\ UNCHANGED <<files, loaded, st_error, tables, veterans,
                   tab1, tab2, top_chases, tab4, tab5>>

\* lines 191-202
FR10 ==
    /\ pc = "fr10"
    /\ top_chases' = TopChases(matches, merged_data)
    /\ rendered' = rendered \cup {"top_chases"}
    /\ pc' = "vet_fr1"
    /\ UNCHANGED <<files, loaded, st_error, tables, veterans,
                   tab1, tab2, team_perf, tab4, tab5>>

\* lines 213-221
VetFR1 ==
    /\ pc = "vet_fr1"
    /\ fr1_vet_data' = Fr1VetData(post_2020_data, early_players_bat)
    /\ top_vet_scorers' = TopScorers(fr1_vet_data')
    /\ rendered' = rendered \cup {"top_vet_scorers"}
    /\ pc' = "vet_fr4"
    /\ UNCHANGED <<files, loaded, st_error, tables, veterans,
                   tab1, tab2, tab3, vet_wickets, top_vet_bowlers, tab5>>

\* lines 225-234
VetFR4 ==
    /\ pc = "vet_fr4"
    /\ vet_wickets' =
           CreditedWickets(Fr4VetData(post_2020_data, early_players_bowl))
    /\ top_vet_bowlers' = TopBowlers(vet_wickets')
    /\ rendered' = rendered \cup {"top_vet_bowlers"}
    /\ pc' = "coach_fr9"
    /\ UNCHANGED <<files, loaded, st_error, tables, veterans,
                   tab1, tab2, tab3, fr1_vet_data, top_vet_scorers, tab5>>

\* lines 242-297
CoachFR9 ==
    /\ pc = "coach_fr9"
    /\ vet_perf' = VetPerf(deliveries, matches, early_players_bat,
                           early_players_bowl)
    /\ top_coaches_win' = TopCoachesWin(vet_perf')
    /\ rendered' = rendered \cup {"top_coaches_win"}
    /\ pc' = "coach_fr10"
    /\ UNCHANGED <<files, loaded, st_error, tables, veterans,
                   tab1, tab2, tab3, tab4, vet_perf_full, chase_stats,
                   experience>>

\* lines 303-335
CoachFR10 ==
    /\ pc = "coach_fr10"
    /\ vet_perf_full' = VetPerfFull(vet_perf, matches)
    /\ chase_stats' = ChaseStats(vet_perf_full')
    /\ rendered' = rendered \cup {"chase_stats"}
    /\ pc' = "coach_fr11"
    /\ UNCHANGED <<files, loaded, st_error, tables, veterans,
                   tab1, tab2, tab3, tab4, vet_perf, top_coaches_win,
                   experience>>

\* lines 339-347
CoachFR11 ==
    /\ pc = "coach_fr11"
    /\ experience' = Experience(vet_perf)
    /\ rendered' = rendered \cup {"experience"}
    /\ pc' = "done"
    /\ UNCHANGED <<files, loaded, st_error, tables, veterans,
                   tab1, tab2, tab3, tab4, vet_perf, top_coaches_win,
                   vet_perf_full, chase_stats>>

Next ==
    \/ Load \/ Veterans
    \/ FR1 \/ FR2 \/ FR3 \/ FR4
    \/ FR5 \/ FR6
    \/ FR9 \/ FR10
    \/ VetFR1 \/ VetFR4
    \/ CoachFR9 \/ CoachFR10 \/ CoachFR11

Spec == Init /\ [][Next]_vars

SpecDeliveries == InitDeliveries /\ [][Next]_vars


-----------------------------------------------------------------------------
(* Properties of the load and of the stadium and team queries, checked under *)
(* Spec.                                                                     *)

Done == pc = "done" /\ loaded

\* C1: once the classification columns exist, every match whose result is
\* neither 'tie' nor 'no result' has exactly one of bat_first_win and
\* field_first_win true, and every match whose result is 'tie' or 'no result'
\* has both false, for toss_decision in {bat, field}.
C1_ExactlyOneFirstWon ==
    "venue_stats" \in rendered =>
        \A k \in 1..Len(matches) :
            IF matches[k].result \in Undecided
            THEN ~matches[k].bat_first_win /\ ~matches[k].field_first_win
            ELSE matches[k].bat_first_win # matches[k].field_first_win

\* C1's case: a decided match won batting first after a toss won to field, a
\* decided match won fielding first, and a tie that carries a winner.
C1_Witness ==
    /\ "venue_stats" \in rendered
    /\ \E a, b, c \in Range(matches) :
        /\ a.result = "normal" /\ a.toss_decision = "field" /\ a.bat_first_win
        /\ b.result = "normal" /\ b.field_first_win
        /\ c.result = "tie" /\ c.winner # NA /\ c.id > NumBaseMatches

\* C3 (as claimed): a query leaves the shared matches and deliveries tables
\* as the load left them.
C3_QueriesLeaveTablesUnchanged ==
    [][pc # "load" => (matches' = matches /\ deliveries' = deliveries)]_vars

DecidedAt(v) ==
    Len(SelectSeq(matches, LAMBDA r : r.venue = v /\ r.result \notin Undecided))

UndecidedAt(v) ==
    Len(SelectSeq(matches, LAMBDA r : r.venue = v /\ r.result \in Undecided))

\* C4: for every venue of the win-probability table, bat_first_wins +
\* field_first_wins is the number of decided matches at the venue, so it is at
\* most total_matches and less only if the venue has a tie or a no-result.
C4_VenueWinsWithinTotal ==
    "venue_stats" \in rendered =>
        \A k \in 1..Len(venue_stats) :
            LET g == venue_stats[k] IN
            /\ g.total_matches >= MinVenueMatches
            /\ g.bat_first_wins + g.field_first_wins <= g.total_matches
            /\ g.bat_first_wins + g.field_first_wins = DecidedAt(g.venue)
            /\ (g.bat_first_wins + g.field_first_wins < g.total_matches
                    => UndecidedAt(g.venue) > 0)

\* C4's case: venue V1, whose fixed matches are all decided, reaches the
\* minimum through a varying match whose result is undecided.
C4_Witness ==
    /\ "venue_stats" \in rendered
    /\ \E k \in 1..Len(venue_stats) :
        /\ venue_stats[k].venue = "V1"
        /\ venue_stats[k].total_matches = MinVenueMatches
        /\ venue_stats[k].bat_first_wins + venue_stats[k].field_first_wins
               = venue_stats[k].total_matches - 1

InPercentRange(p) == p.den > 0 /\ 0 <= p.num /\ p.num <= 100 * p.den

RecentWinsOf(t) ==
    Len(SelectSeq(matches, LAMBDA r : r.year > RecentAfter /\ r.winner = t))

NothingComputed ==
    /\ rendered = {}
    /\ tables = <<(<<>>), (<<>>), (<<>>)>>
    /\ veterans = <<{}, {}>>
    /\ tab1 = <<(<<>>), (<<>>), (<<>>), (<<>>), (<<>>), (<<>>), (<<>>)>>
    /\ tab2 = <<(<<>>), (<<>>)>>
    /\ tab3 = <<(<<>>), (<<>>)>>
    /\ tab4 = <<(<<>>), (<<>>), (<<>>), (<<>>)>>
    /\ tab5 = <<(<<>>), (<<>>), (<<>>), (<<>>), (<<>>)>>

\* C6: when matches.csv or deliveries.csv is absent, the load reports the
\* error and the run ends with nothing loaded, computed or rendered.
C6_MissingFileNoResults ==
    (~matches_csv.present \/ ~deliveries_csv.present) =>
        /\ NothingComputed
        /\ ~loaded
        /\ pc \in {"load", "done"}
        /\ pc = "done" => st_error

\* C6's case: matches.csv was read and deliveries.csv is absent.
C6_Witness ==
    /\ pc = "done" /\ st_error
    /\ matches_csv.present /\ ~deliveries_csv.present


-----------------------------------------------------------------------------
(* Properties of the player, veteran and coach queries, checked under      *)
(* SpecDeliveries.                                                         *)

\* the players who batted or bowled in a match of 2008..2012
VeteranSet == early_players_bat \cup early_players_bowl

PostBatters == Unique(post_2020_data, "batter")
PostWicketBowlers == Unique(CreditedWickets(post_2020_data), "bowler")

\* C2 (as claimed): no player of the veteran set is in the result of an
\* excl.-veteran query, and every one with post-2020 rows of the base query
\* is among the groups of the veteran-only query.
C2_VeteranSetSeparates ==
    /\ "top_scorers" \in rendered =>
        Unique(top_scorers, "index") \cap VeteranSet = {}
    /\ "top_bowlers" \in rendered =>
        Unique(top_bowlers, "index") \cap VeteranSet = {}
    /\ "top_vet_scorers" \in rendered =>
        VeteranSet \cap PostBatters \subseteq Unique(fr1_vet_data, "batter")
    /\ "top_vet_bowlers" \in rendered =>
        VeteranSet \cap PostWicketBowlers \subseteq Unique(vet_wickets, "bowler")

\* C7: before the truncation, the batters grouped by the veteran query and by
\* the excl.-veteran query are disjoint, together they are the batters of the
\* post-2020 data, and each one's runs are the runs of the unfiltered
\* grouping; the same for the bowlers and their credited wickets.
C7_VeteranSplitPartitions ==
    /\ "top_vet_scorers" \in rendered =>
        /\ Unique(fr1_data, "batter") \cap Unique(fr1_vet_data, "batter") = {}
        /\ Unique(fr1_data, "batter") \cup Unique(fr1_vet_data, "batter")
               = PostBatters
        /\ RunsByBatter(fr1_data) \cup RunsByBatter(fr1_vet_data)
               = RunsByBatter(post_2020_data)
    /\ "top_vet_bowlers" \in rendered =>
        /\ Unique(wickets, "bowler") \cap Unique(vet_wickets, "bowler") = {}
        /\ Unique(wickets, "bowler") \cup Unique(vet_wickets, "bowler")
               = PostWicketBowlers
        /\ Counts(wickets, "bowler", NaN) \cup Counts(vet_wickets, "bowler", NaN)
               = Counts(CreditedWickets(post_2020_data), "bowler", NaN)

\* C7's case: both variants have groups, and a player who only bowled in
\* 2008..2012 bats after 2020.
C7_Witness ==
    /\ Done
    /\ 1 \in Unique(fr1_vet_data, "batter")
    /\ 2 \in early_players_bowl \ early_players_bat
    /\ 2 \in Unique(fr1_data, "batter")
    /\ Unique(wickets, "bowler") # {} /\ Unique(vet_wickets, "bowler") # {}

MatchOf(id) == CHOOSE m \in Range(matches) : m.id = id

\* C8: the chase_win of every veteran-team row is true iff the row's team won
\* the match and batted second by the toss, and chase_stats sums that column,
\* which the always-false placeholder would make 0.
C8_ChaseWinFormula ==
    "chase_stats" \in rendered =>
        /\ \A k \in 1..Len(vet_perf_full) :
            LET row == vet_perf_full[k]
                m == MatchOf(row.match_id)
            IN  row.chase_win <=>
                    /\ row.team = m.winner
                    /\ \/ m.toss_decision = "field" /\ m.toss_winner = row.team
                       \/ m.toss_decision = "bat" /\ m.toss_winner # row.team
        /\ Len(vet_perf_full) = Len(vet_perf)
        /\ \A k \in 1..Len(chase_stats) :
            chase_stats[k].value =
                Len(SelectSeq(vet_perf_full,
                              LAMBDA r : r.player = chase_stats[k].index
                                         /\ r.chase_win))

\* C8's case: a chase won after the other side chose to bat, one won by
\* player 12 after the team chose to field, a win that is no chase, and two
\* veterans with successful chases in the result.
C8_Witness ==
    /\ Done
    /\ \E a, b, c \in Range(vet_perf_full) :
        /\ a.chase_win /\ a.toss_decision = "bat"
        /\ b.chase_win /\ b.toss_decision = "field" /\ b.player = 12
        /\ c.won /\ ~c.chase_win
    /\ \E j, k \in 1..Len(chase_stats) :
        j # k /\ chase_stats[j].value > 0 /\ chase_stats[k].value > 0

\* C9 (as claimed): experience is, for each veteran, the number of distinct
\* matches in which the veteran is mapped to a team.
C9_ExperienceCountsDistinctMatches ==
    "experience" \in rendered =>
        \A k \in 1..Len(experience) :
            experience[k].value =
                Cardinality({r.match_id :
                    r \in {q \in Range(vet_perf) : q.player = experience[k].index}})

\* out is the top TopN of the candidates: at most TopN rows, all candidates,
\* none missing while there is room, in non-increasing order, and no
\* candidate left out is ahead of a row of out.
IsTopN(out, cands, f, ratio) ==
    /\ Len(out) <= TopN
    /\ Range(out) \subseteq cands
    /\ Len(out) = Min2(TopN, Cardinality(cands))
    /\ \A i, j \in 1..Len(out) : i < j => ~Ahead(out[j], out[i], f, ratio)
    /\ \A c \in cands \ Range(out) :
        \A i \in 1..Len(out) : ~Ahead(c, out[i], f, ratio)

\* C10: every top-N output has at most TopN = 10 rows, is in non-increasing
\* order of its metric, and leaves out no row with a greater metric than a
\* row it holds.
C10_TopNSortedTruncated ==
    /\ "top_scorers" \in rendered =>
        IsTopN(top_scorers, RunsByBatter(fr1_data), "value", FALSE)
    /\ "top_sr" \in rendered =>
        IsTopN(top_sr, StrikeRates(post_2020_data), "strike_rate", TRUE)
    /\ "top_fielders" \in rendered =>
        IsTopN(top_fielders, Counts(Catches(deliveries), "fielder", NaN), "value", FALSE)
    /\ "top_bowlers" \in rendered =>
        IsTopN(top_bowlers, Counts(wickets, "bowler", NaN), "value", FALSE)
    /\ "top_toss_venues" \in rendered =>
        IsTopN(top_toss_venues, TossImpact(matches), "win_prob", TRUE)
    /\ "top_chases" \in rendered =>
        IsTopN(top_chases, Range(Chases(matches, merged_data)), "total_runs", FALSE)
    /\ "top_vet_scorers" \in rendered =>
        IsTopN(top_vet_scorers, RunsByBatter(fr1_vet_data), "value", FALSE)
    /\ "top_vet_bowlers" \in rendered =>
        IsTopN(top_vet_bowlers, Counts(vet_wickets, "bowler", NaN), "value", FALSE)
    /\ "top_coaches_win" \in rendered =>
        IsTopN(top_coaches_win, VetWinStats(vet_perf), "win_pct", TRUE)
    /\ "chase_stats" \in rendered =>
        IsTopN(chase_stats, ChaseWinsByPlayer(vet_perf_full), "value", FALSE)
    /\ "experience" \in rendered =>
        IsTopN(experience, RowsByPlayer(vet_perf), "value", FALSE)

\* C10's case: more than TopN batters and chases to rank, with different
\* metrics among them, so that rows are left out.
C10_Witness ==
    /\ Done
    /\ Cardinality(RunsByBatter(fr1_data)) > TopN
    /\ Len(top_scorers) = TopN
    /\ top_scorers[1].value > top_scorers[TopN].value
    /\ Len(Chases(matches, merged_data)) > TopN
    /\ Len(top_chases) = TopN
    /\ top_chases[1].total_runs > top_chases[TopN].total_runs

=============================================================================
